---- MODULE Spec2Model ----
(***************************************************************************)
(* The three notebooks of the tutorial (evaluating_stakeholder_needs,      *)
(* exercises_life_expectancy, exercises_air_quality) as one state machine: *)
(* a Jupyter kernel namespace, a cell pointer, and one action per kind of  *)
(* code cell.  Tables are small tables of one-decimal numbers (kept in     *)
(* tenths) with missing cells; the library calls the cells make (pandas,   *)
(* scikit-learn, statsmodels) are modelled by what they do to such tables. *)
(* Arithmetic is exact except where a float64 result decides what the code *)
(* does next: the mean that StandardScaler subtracts from a constant       *)
(* column.                                                                 *)
(***************************************************************************)
EXTENDS Integers, Sequences, FiniteSets, TLC

(***************************************************************************)
(* Bounds of the model.                                                    *)
(***************************************************************************)
\* top-to-bottom passes over the cells in one kernel
MaxPasses == 2
\* kernel restarts
MaxRestarts == 1

(***************************************************************************)
(* Program constants.  Correlations are kept in hundredths (round(2)).     *)
(***************************************************************************)
FillValue == 0
MainThreshold == 30
RefitThreshold == 20
LifeThreshold == 30
AirThreshold == 50
MainSeed == 5
LifeSeed == 9
AirSeed == 9
\* test_size = 0.2, as a percentage
TestSizePct == 20

(***************************************************************************)
(* The state: one Jupyter kernel running the cells of one notebook.        *)
(***************************************************************************)
VARIABLES
    nb,        \* the notebook that is open
    world,     \* the dataset on disk and the installed libraries
    pc,        \* the next cell to run (1-based)
    pass,      \* the number of the current top-to-bottom pass in this kernel
    restarts,  \* kernel restarts so far
    kernel,    \* the kernel namespace
    outputs,   \* the output area of every cell
    err,       \* the unhandled exception that stopped the current pass
    trail,     \* the pipeline steps of the current pass, in order
    readers,   \* the cells that have read from disk in this kernel
    writers,   \* the cells that have written to disk in this kernel
    base,      \* per cell of pass 1 in this kernel: bindings, output, error
    prev       \* base of the kernel before the last restart

vars == <<nb, world, pc, pass, restarts, kernel, outputs, err, trail,
          readers, writers, base, prev>>

(***************************************************************************)
(* Cells of a table: a number, v tenths, or a missing value (NaN).         *)
(***************************************************************************)
NaN == [na |-> TRUE, v |-> 0]
Num(x) == [na |-> FALSE, v |-> x]
Column(vals, missing) ==
    [i \in 1..Len(vals) |-> IF i \in missing THEN NaN ELSE Num(vals[i])]

RECURSIVE SumSeq(_)
SumSeq(s) == IF s = <<>> THEN 0 ELSE Head(s) + SumSeq(Tail(s))

Abs(k) == IF k < 0 THEN -k ELSE k

\* position of name in a sequence of names (0 when absent)
IndexOf(names, name) ==
    IF \E i \in 1..Len(names) : names[i] = name
    THEN CHOOSE i \in 1..Len(names) :
             names[i] = name /\ \A j \in 1..(i - 1) : names[j] # name
    ELSE 0

Has(names, name) == \E i \in 1..Len(names) : names[i] = name

\* the subsequence of s at the positions that satisfy keep, order kept
RECURSIVE Filter(_, _)
Filter(s, keep) ==
    IF s = <<>> THEN <<>>
    ELSE IF Head(keep) THEN <<Head(s)>> \o Filter(Tail(s), Tail(keep))
    ELSE Filter(Tail(s), Tail(keep))

(***************************************************************************)
(* pandas.  A DataFrame is [cols, index, data]: data[j] is the column      *)
(* named cols[j], a sequence of cells parallel to the row labels index.    *)
(***************************************************************************)
DataFrame(cols, index, data) ==
    [type |-> "DataFrame", cols |-> cols, index |-> index, data |-> data]

Series(name, index, val) ==
    [type |-> "Series", name |-> name, index |-> index, val |-> val]

\* df[name]
GetColumn(df, name) ==
    Series(name, df.index, df.data[IndexOf(df.cols, name)])

\* df[names]: the named columns, in the order asked for
SelectColumns(df, names) ==
    DataFrame(names, df.index,
              [j \in 1..Len(names) |-> df.data[IndexOf(df.cols, names[j])]])

\* fillna that writes 1 whatever value it is given
fillna_one(df, value) ==
    DataFrame(df.cols, df.index,
              [j \in 1..Len(df.cols) |->
                  [i \in 1..Len(df.index) |->
                      IF df.data[j][i].na THEN Num(1) ELSE df.data[j][i]]])

\* DataFrame.fillna(value): every missing cell becomes value, no other changes
fillna(df, value) ==
    DataFrame(df.cols, df.index,
              [j \in 1..Len(df.cols) |->
                  [i \in 1..Len(df.index) |->
                      IF df.data[j][i].na THEN Num(value) ELSE df.data[j][i]]])

\* drop(..., errors="ignore") never raises
DropRaises_ignore(df, names) == FALSE

\* DataFrame.drop(names, axis="columns") raises KeyError unless all are columns
DropRaises(df, names) == \E n \in names : ~Has(df.cols, n)

\* a drop that returns the frame as it was
drop_nothing(df, names) == df

drop(df, names) ==
    LET keep == [j \in 1..Len(df.cols) |-> df.cols[j] \notin names]
    IN  DataFrame(Filter(df.cols, keep), df.index, Filter(df.data, keep))

\* DataFrame.reset_index(): the old row labels become a first column "index"
reset_index(df) ==
    DataFrame(<<"index">> \o df.cols,
              [i \in 1..Len(df.index) |-> i - 1],
              <<[i \in 1..Len(df.index) |-> Num(df.index[i])]>> \o df.data)

(***************************************************************************)
(* DataFrame.corr().round(2): Pearson correlation over the rows where both *)
(* columns are present.  With n such rows,                                 *)
(*   r = (n*Sxy - Sx*Sy) / sqrt((n*Sxx - Sx^2) * (n*Syy - Sy^2)),          *)
(* and r is NaN when the divisor is 0 (a constant column, or n < 2).       *)
(***************************************************************************)
PairStats(a, b) ==
    LET ok(i) == ~a[i].na /\ ~b[i].na
        pick(f(_)) == SumSeq([i \in 1..Len(a) |-> IF ok(i) THEN f(i) ELSE 0])
        one(i) == 1
        fx(i)  == a[i].v
        fy(i)  == b[i].v
        fxy(i) == a[i].v * b[i].v
        fxx(i) == a[i].v * a[i].v
        fyy(i) == b[i].v * b[i].v
        n   == pick(one)
        sx  == pick(fx)
        sy  == pick(fy)
    IN  [num |-> n * pick(fxy) - sx * sy,
         den2 |-> (n * pick(fxx) - sx * sx) * (n * pick(fyy) - sy * sy)]

RECURSIVE GCD(_, _)
GCD(a, b) == IF b = 0 THEN a ELSE GCD(b, a % b)

\* round(100*|num|/sqrt(den2)) to the nearest integer, ties to even; the
\* squares are compared as the fraction num^2/den2 in lowest terms
RoundHundredths(num, den2) ==
    LET g == GCD(num * num, den2)
        p == (num * num) \div g
        q == den2 \div g
    IN  Cardinality({c \in 1..100 :
            \/ (2 * c - 1) * (2 * c - 1) * q < 40000 * p
            \/ /\ (2 * c - 1) * (2 * c - 1) * q = 40000 * p
               /\ c % 2 = 0})

Pearson(a, b) ==
    LET s == PairStats(a, b)
    IN  IF s.den2 = 0 THEN NaN
        ELSE IF s.num < 0 THEN Num(-RoundHundredths(s.num, s.den2))
        ELSE Num(RoundHundredths(s.num, s.den2))

corr(df) ==
    DataFrame(df.cols, df.cols,
              [j \in 1..Len(df.cols) |->
                  [i \in 1..Len(df.cols) |-> Pearson(df.data[i], df.data[j])]])

\* df_corr[target][np.absolute(df_corr[target]) > threshold]
\* (a comparison with NaN is False)
AboveThreshold(df_corr, target, threshold) ==
    LET s == GetColumn(df_corr, target)
        keep == [i \in 1..Len(s.val) |->
                    ~s.val[i].na /\ Abs(s.val[i].v) > threshold]
    IN  Series(target, Filter(s.index, keep), Filter(s.val, keep))

(***************************************************************************)
(* scikit-learn.                                                           *)
(***************************************************************************)
\* a split without random_state: the permutation differs from one kernel to
\* the next
Permutation_unseeded(seed, n) ==
    IF restarts % 2 = 0 THEN [i \in 1..n |-> i - 1] ELSE [i \in 1..n |-> n - i]

\* numpy RandomState(seed).permutation(n) (Mersenne Twister, Fisher-Yates),
\* 0-based positions, for the seeds of the notebooks
Permutation(seed, n) ==
    CASE seed = 5 /\ n = 4 -> <<0, 1, 2, 3>>
      [] seed = 5 /\ n = 5 -> <<4, 0, 1, 2, 3>>
      [] seed = 5 /\ n = 6 -> <<5, 2, 4, 1, 0, 3>>
      [] seed = 5 /\ n = 7 -> <<6, 2, 4, 1, 0, 5, 3>>
      [] seed = 9 /\ n = 4 -> <<1, 3, 0, 2>>
      [] seed = 9 /\ n = 5 -> <<3, 0, 1, 2, 4>>
      [] seed = 9 /\ n = 6 -> <<5, 1, 2, 3, 0, 4>>
      [] seed = 9 /\ n = 7 -> <<5, 1, 2, 3, 0, 4, 6>>

\* n_test = ceil(test_size * n_samples)
NTest(n) == (TestSizePct * n + 99) \div 100

\* the rows of a frame or series at the given 0-based positions, in that order
TakeFrame(df, pos) ==
    DataFrame(df.cols,
              [i \in 1..Len(pos) |-> df.index[pos[i] + 1]],
              [j \in 1..Len(df.cols) |->
                  [i \in 1..Len(pos) |-> df.data[j][pos[i] + 1]]])

TakeSeries(s, pos) ==
    Series(s.name,
           [i \in 1..Len(pos) |-> s.index[pos[i] + 1]],
           [i \in 1..Len(pos) |-> s.val[pos[i] + 1]])

\* train_test_split(X, y, test_size=0.2, random_state=seed):
\* test = permutation[:n_test], train = permutation[n_test:]
train_test_split(X, y, seed) ==
    LET n == Len(X.index)
        p == Permutation(seed, n)
        test == SubSeq(p, 1, NTest(n))
        train == SubSeq(p, NTest(n) + 1, n)
    IN  [X_train |-> TakeFrame(X, train), X_test |-> TakeFrame(X, test),
         y_train |-> TakeSeries(y, train), y_test |-> TakeSeries(y, test)]

\* a numpy array of standardized values: data[j] is its j-th column
ndarray(data) == [type |-> "ndarray", data |-> data]

\* StandardScaler().fit(X): per column the count n, the sum and n*Sxx - Sx^2
\* (mean_ = sum/n, var_ = den2/n^2)
ScalerFit(X) ==
    [type |-> "StandardScaler",
     n |-> Len(X.index),
     sum |-> [j \in 1..Len(X.cols) |->
                 SumSeq([i \in 1..Len(X.index) |-> X.data[j][i].v])],
     den2 |-> [j \in 1..Len(X.cols) |->
                 LET c == X.data[j]
                     n == Len(c)
                     s == SumSeq([i \in 1..n |-> c[i].v])
                     q == SumSeq([i \in 1..n |-> c[i].v * c[i].v])
                 IN  n * q - s * s]]

\* <<c, n>>: the float64 mean of n cells that all hold c tenths, summed in
\* row order and divided by n, is not the float64 value of c tenths
\* (n = 3: (0.1 + 0.1 + 0.1)/3 = 0.10000000000000002)
InexactMeans ==
    { <<c, 3>> : c \in {1, 2, 4, 7, 8, 14, 16, 19, 27, 28} }
        \cup { <<c, 6>> : c \in {1, 2, 4, 7, 8, 11, 14, 16, 19, 22, 23, 27, 28} }

\* x - mean_ for a cell of a constant column whose mean is inexact: not zero,
\* of the size of a rounding error, the same in every such cell
Residue(n) == [num |-> 1, n |-> n, den2 |-> -1]

\* sc.transform(X): the cell [num, n, den2] stands for the exact value
\* (x - mean)/scale = (num/n) / (IF den2 = 0 THEN 1 ELSE sqrt(den2)/n)
ScalerTransform(sc, X) ==
    ndarray([j \in 1..Len(X.cols) |->
                [i \in 1..Len(X.index) |->
                    IF /\ sc.den2[j] = 0
                       /\ sc.n * X.data[j][i].v = sc.sum[j]
                       /\ <<X.data[j][i].v, sc.n>> \in InexactMeans
                    THEN Residue(sc.n)
                    ELSE [num |-> sc.n * X.data[j][i].v - sc.sum[j],
                          n |-> sc.n, den2 |-> sc.den2[j]]]])

\* check_array: at least one feature is required
ScalerRaises(X) == Len(X.cols) = 0

\* LinearRegression().fit(X, y) validates y: no NaN
FitRaises(X, y) == \E i \in 1..Len(y.val) : y.val[i].na

\* the fitted estimator is determined by its training data
LinearRegression(X, y) ==
    [type |-> "LinearRegression", X |-> X, y |-> y.val]

predict(lr, X) == [type |-> "predict", model |-> lr, X |-> X]

(***************************************************************************)
(* statsmodels.                                                            *)
(***************************************************************************)
\* the value 1.0 in the representation of ScalerTransform
One == [num |-> 1, n |-> 1, den2 |-> 0]

\* add_constant(x, has_constant="skip"): x is returned unchanged when it has
\* a non-zero constant column, otherwise a column of ones is prepended
HasNonzeroConstant(x) ==
    \E j \in 1..Len(x.data) :
        /\ Len(x.data[j]) > 0
        /\ \A i \in 1..Len(x.data[j]) :
               x.data[j][i].num = x.data[j][1].num /\ x.data[j][i].num # 0

add_constant(x, nrows) ==
    IF HasNonzeroConstant(x) THEN x
    ELSE ndarray(<<[i \in 1..nrows |-> One]>> \o x.data)

OLS(endog, exog) == [type |-> "OLS", endog |-> endog.val, exog |-> exog]

OLSfit(model) == [type |-> "OLSResults", model |-> model]

\* results.summary(xname=...) raises unless there is one name per parameter
SummaryRaises(results, xname) == Len(xname) # Len(results.model.exog.data)

(***************************************************************************)
(* The kernel namespace.  While a cell runs, s = [K, binds]: K maps the    *)
(* bound names to their values, binds collects the names the cell assigns. *)
(***************************************************************************)
EmptyNamespace == [n \in {} |-> 0]

Enter(K) == [K |-> K, binds |-> {}]

Bind(s, name, value) ==
    [K |-> [n \in DOMAIN s.K \cup {name} |->
               IF n = name THEN value ELSE s.K[n]],
     binds |-> s.binds \cup {name}]

Import(s, names) ==
    [K |-> [n \in DOMAIN s.K \cup names |->
               IF n \in names THEN [type |-> "import", name |-> n]
               ELSE s.K[n]],
     binds |-> s.binds \cup names]

\* what running a cell yields: the namespace it leaves and the names it
\* assigned, the exception that stopped it ("" when it ran to its end), the
\* pipeline steps it performed, what it printed or displayed, and the number
\* of reads from disk and of writes to disk
Result(s, exc, steps, out, reads) ==
    [K |-> s.K, binds |-> s.binds, exc |-> exc, steps |-> steps,
     out |-> out, reads |-> reads, writes |-> 0]

\* a name that is read while unbound stops the cell with a NameError
Needs(K, names, result) ==
    IF names \subseteq DOMAIN K THEN result
    ELSE Result(Enter(K), "NameError", <<>>, <<>>, 0)

(***************************************************************************)
(* The code cells.  env is what the kernel finds outside the notebook:     *)
(* env.table (the dataset), env.exists (the CSV file is there) and         *)
(* env.pairplotRaises (this seaborn refuses to plot a frame of no columns).*)
(***************************************************************************)
\* evaluating_stakeholder_needs: imports, load_diabetes, df = db.frame
LoadDiabetes(K, env) ==
    LET s1 == Import(Enter(K), {"np", "pd", "sns", "datasets"})
        s2 == Bind(s1, "db", [type |-> "Bunch", frame |-> env.table,
                              DESCR |-> "diabetes"])
        s3 == Bind(s2, "df", s2.K["db"].frame)
    IN  Result(s3, "", <<"load">>, <<>>, 1)

\* pd.read_csv(file): row labels 0..n-1
read_csv(table) ==
    DataFrame(table.cols, [i \in 1..Len(table.index) |-> i - 1], table.data)

\* [1 if d == "Developed" else 0 for d in df["status"]]
EncodeStatus(df) ==
    LET j == IndexOf(df.cols, "status")
    IN  DataFrame(df.cols, df.index,
            [k \in 1..Len(df.cols) |->
                IF k # j THEN df.data[k]
                ELSE [i \in 1..Len(df.index) |->
                         IF ~df.data[k][i].na /\ df.data[k][i].s = "Developed"
                         THEN Num(10) ELSE Num(0)]])

\* exercises_life_expectancy: imports, read_csv, status, fillna, reset_index
LoadLifeExpectancy(K, env) ==
    LET s1 == Import(Enter(K), {"np", "pd", "sns"})
        s2 == Bind(s1, "df", read_csv(env.table))
        s3 == Bind(s2, "df", EncodeStatus(s2.K["df"]))
        s4 == Bind(s3, "df", fillna(s3.K["df"], FillValue))
        s5 == Bind(s4, "df", reset_index(s4.K["df"]))
    IN  IF ~env.exists
        THEN Result(s1, "FileNotFoundError", <<>>, <<>>, 0)
        ELSE Result(s5, "", <<"load", "clean">>, <<>>, 1)

\* the load cell of exercises_air_quality without its df.fillna(0) line
LoadAirQuality_nofill(K, env) ==
    LET s1 == Import(Enter(K), {"np", "pd", "sns"})
        s2 == Bind(s1, "df", read_csv(env.table))
    IN  IF ~env.exists
        THEN Result(s1, "FileNotFoundError", <<>>, <<>>, 0)
        ELSE Result(s2, "", <<"load">>, <<>>, 1)

\* exercises_air_quality: imports, read_csv, fillna
LoadAirQuality(K, env) ==
    LET s1 == Import(Enter(K), {"np", "pd", "sns"})
        s2 == Bind(s1, "df", read_csv(env.table))
        s3 == Bind(s2, "df", fillna(s2.K["df"], FillValue))
    IN  IF ~env.exists
        THEN Result(s1, "FileNotFoundError", <<>>, <<>>, 0)
        ELSE Result(s3, "", <<"load", "clean">>, <<>>, 1)

\* print(db.DESCR)
PrintDescr(K) ==
    Needs(K, {"db"},
        Result(Enter(K), "", <<>>,
               <<[kind |-> "print", text |-> K["db"].DESCR]>>, 0))

\* df.info()
DfInfo(K) ==
    Needs(K, {"df"},
        Result(Enter(K), "", <<>>,
               <<[kind |-> "info", cols |-> K["df"].cols,
                  rows |-> Len(K["df"].index)]>>, 0))

\* df_corr = df.corr().round(2); df_corr
Correlate(K) ==
    Needs(K, {"df"},
        LET s1 == Bind(Enter(K), "df_corr", corr(K["df"]))
        IN  Result(s1, "", <<"correlate">>,
                   <<[kind |-> "display", value |-> s1.K["df_corr"]]>>, 0))

\* var = df_corr[target][np.absolute(df_corr[target]) > threshold]; var
Threshold(K, var, target, threshold) ==
    Needs(K, {"df_corr", "np"},
        LET s1 == Bind(Enter(K), var,
                       AboveThreshold(K["df_corr"], target, threshold))
        IN  IF ~Has(K["df_corr"].cols, target)
            THEN Result(Enter(K), "KeyError", <<>>, <<>>, 0)
            ELSE Result(s1, "", <<"select">>,
                        <<[kind |-> "display", value |-> s1.K[var]]>>, 0))

\* exercises_life_expectancy: the correlation and the threshold in one cell
CorrelateThreshold(K, var, target, threshold) ==
    Needs(K, {"df", "np"},
        LET s1 == Bind(Enter(K), "df_corr", corr(K["df"]))
            s2 == Bind(s1, var,
                       AboveThreshold(s1.K["df_corr"], target, threshold))
        IN  IF ~Has(s1.K["df_corr"].cols, target)
            THEN Result(s1, "KeyError", <<"correlate">>, <<>>, 0)
            ELSE Result(s2, "", <<"correlate", "select">>,
                        <<[kind |-> "display", value |-> s2.K[var]]>>, 0))

\* sns.pairplot(df[var.index])
Pairplot(K, var, env) ==
    Needs(K, {"sns", "df", var},
        IF K[var].index = <<>> /\ env.pairplotRaises
        THEN Result(Enter(K), "ValueError", <<>>, <<>>, 0)
        ELSE Result(Enter(K), "", <<>>,
                    <<[kind |-> "pairplot",
                       data |-> SelectColumns(K["df"], K[var].index)]>>, 0))

\* from sklearn... import ...
ImportNames(K, names) == Result(Import(Enter(K), names), "", <<>>, <<>>, 0)

\* split and standardize: shared by the set-up cells and the refit cell
SplitScale(s, seed, steps) ==
    LET sp == train_test_split(s.K["X"], s.K["y"], seed)
        s1 == Bind(Bind(Bind(Bind(s, "X_train", sp.X_train),
                   "X_test", sp.X_test), "y_train", sp.y_train),
                   "y_test", sp.y_test)
        unfitted == [type |-> "StandardScaler", n |-> 0,
                     sum |-> <<>>, den2 |-> <<>>]
        s2 == Bind(s1, "sc", unfitted)
        s3 == Bind(s2, "sc", ScalerFit(sp.X_train))
        s4 == Bind(s3, "X_train", ScalerTransform(s3.K["sc"], sp.X_train))
        s5 == Bind(s4, "X_test", ScalerTransform(s4.K["sc"], sp.X_test))
    IN  IF ScalerRaises(sp.X_train)
        THEN [s |-> s2, exc |-> "ValueError", steps |-> steps \o <<"split">>]
        ELSE [s |-> s5, exc |-> "", steps |-> steps \o <<"split", "scale">>]

\* a set-up cell that goes on from the X the kernel already has, if any
SetUp_reusingX(K, var, target, seed) ==
    Needs(K, {"df", var, "train_test_split", "StandardScaler"},
        LET s1 == Bind(Enter(K), "X",
                       IF "X" \in DOMAIN K THEN K["X"]
                       ELSE SelectColumns(K["df"], K[var].index))
            s2 == Bind(s1, "X", fillna(s1.K["X"], FillValue))
            s3 == Bind(s2, "X", drop(s2.K["X"], {target}))
            s4 == Bind(s3, "y", GetColumn(K["df"], target))
            r  == SplitScale(s4, seed, <<"clean">>)
        IN  IF DropRaises(s2.K["X"], {target})
            THEN Result(s2, "KeyError", <<"clean">>, <<>>, 0)
            ELSE Result(r.s, r.exc, r.steps, <<>>, 0))

\* X = df[var.index]; X = X.fillna(0); X = X.drop(target); y = df[target];
\* train_test_split; StandardScaler
SetUp(K, var, target, seed) ==
    Needs(K, {"df", var, "train_test_split", "StandardScaler"},
        LET s1 == Bind(Enter(K), "X", SelectColumns(K["df"], K[var].index))
            s2 == Bind(s1, "X", fillna(s1.K["X"], FillValue))
            s3 == Bind(s2, "X", drop(s2.K["X"], {target}))
            s4 == Bind(s3, "y", GetColumn(K["df"], target))
            r  == SplitScale(s4, seed, <<"clean">>)
        IN  IF DropRaises(s2.K["X"], {target})
            THEN Result(s2, "KeyError", <<"clean">>, <<>>, 0)
            ELSE Result(r.s, r.exc, r.steps, <<>>, 0))

\* lr = LinearRegression(); lr.fit(X_train, y_train); y_preds = lr.predict(X_test)
Fit(K) ==
    Needs(K, {"LinearRegression", "X_train", "y_train", "X_test"},
        LET unfitted == [type |-> "LinearRegression",
                         X |-> ndarray(<<>>), y |-> <<>>]
            s1 == Bind(Enter(K), "lr", unfitted)
            s2 == Bind(s1, "lr", LinearRegression(K["X_train"], K["y_train"]))
            s3 == Bind(s2, "y_preds", predict(s2.K["lr"], K["X_test"]))
        IN  IF FitRaises(K["X_train"], K["y_train"])
            THEN Result(s1, "ValueError", <<>>, <<>>, 0)
            ELSE Result(s3, "", <<"fit">>, <<>>, 0))

\* the printed scores are determined by the model and the data they are
\* computed from
Score(name, lr, X, y) ==
    [kind |-> "print", metric |-> name, model |-> lr, X |-> X, y |-> y]

\* print(r2 on the training set); print(r2 on the test set)
Metrics(K) ==
    Needs(K, {"lr", "X_train", "y_train", "r2_score", "y_test", "y_preds"},
        Result(Enter(K), "", <<"metrics">>,
               <<Score("training set r2 score", K["lr"], K["X_train"],
                       K["y_train"].val),
                 Score("test set r2 score", K["lr"], K["y_preds"],
                       K["y_test"].val)>>, 0))

\* the main tutorial also prints the mean squared error
MetricsMSE(K) ==
    Needs(K, {"lr", "X_train", "y_train", "r2_score", "y_test", "y_preds",
              "mean_squared_error"},
        Result(Enter(K), "", <<"metrics">>,
               <<Score("training set r2 score", K["lr"], K["X_train"],
                       K["y_train"].val),
                 Score("test set r2 score", K["lr"], K["y_preds"],
                       K["y_test"].val),
                 Score("test set mean squared error", K["lr"], K["y_preds"],
                       K["y_test"].val)>>, 0))

\* a cell of comments only
Comment(K) == Result(Enter(K), "", <<>>, <<>>, 0)

\* x_train = sm.add_constant(X_train); model = sm.OLS(y_train, x_train);
\* results = model.fit()
FitOLS(s, steps) ==
    LET s1 == Bind(s, "x_train",
                   add_constant(s.K["X_train"], Len(s.K["y_train"].val)))
        s2 == Bind(s1, "model", OLS(s1.K["y_train"], s1.K["x_train"]))
        s3 == Bind(s2, "results", OLSfit(s2.K["model"]))
    IN  Result(s3, "", steps \o <<"ols">>, <<>>, 0)

\* x_train = sm.add_constant(X_train); model = sm.OLS(y_train, x_train);
\* results = model.fit()
OLSCell(K) ==
    Needs(K, {"sm", "X_train", "y_train"}, FitOLS(Enter(K), <<>>))

\* print(results.summary(xname = ["const"] + list(X.columns)))
Summary(K) ==
    Needs(K, {"results", "X"},
        LET xname == <<"const">> \o K["X"].cols
        IN  IF SummaryRaises(K["results"], xname)
            THEN Result(Enter(K), "ValueError", <<>>, <<>>, 0)
            ELSE Result(Enter(K), "", <<"summary">>,
                        <<[kind |-> "summary", xname |-> xname,
                           results |-> K["results"]]>>, 0))

\* a refit cell that drops only target and s6
Refit_keeping_s4(K) ==
    Needs(K, {"df_corr", "np", "df", "y", "train_test_split",
              "StandardScaler", "sm"},
        LET s1 == Bind(Enter(K), "target_corr",
                       AboveThreshold(K["df_corr"], "target", RefitThreshold))
            s2 == Bind(s1, "X",
                       SelectColumns(K["df"], s1.K["target_corr"].index))
            s3 == Bind(s2, "X", fillna(s2.K["X"], FillValue))
            s4 == Bind(s3, "X", drop(s3.K["X"], {"target", "s6"}))
            r  == SplitScale(s4, MainSeed, <<"refit", "select", "clean">>)
        IN  IF DropRaises(s3.K["X"], {"target", "s4", "s6"})
            THEN Result(s3, "KeyError", <<"refit", "select", "clean">>,
                        <<>>, 0)
            ELSE IF r.exc # ""
            THEN Result(r.s, r.exc, r.steps, <<>>, 0)
            ELSE FitOLS(r.s, r.steps))

\* a refit cell that fills the table itself: df.fillna(0, inplace=True)
Refit_inplace(K) ==
    Needs(K, {"df_corr", "np", "df", "y", "train_test_split",
              "StandardScaler", "sm"},
        LET s0 == Bind(Enter(K), "df", fillna(K["df"], FillValue))
            s1 == Bind(s0, "target_corr",
                       AboveThreshold(K["df_corr"], "target", RefitThreshold))
            s2 == Bind(s1, "X",
                       SelectColumns(s0.K["df"], s1.K["target_corr"].index))
            s4 == Bind(s2, "X", drop(s2.K["X"], {"target", "s4", "s6"}))
            r  == SplitScale(s4, MainSeed, <<"refit", "select", "clean">>)
        IN  IF DropRaises(s2.K["X"], {"target", "s4", "s6"})
            THEN Result(s2, "KeyError", <<"refit", "select", "clean">>,
                        <<>>, 0)
            ELSE IF r.exc # ""
            THEN Result(r.s, r.exc, r.steps, <<>>, 0)
            ELSE FitOLS(r.s, r.steps))

\* the refit cell of the main tutorial
Refit(K) ==
    Needs(K, {"df_corr", "np", "df", "y", "train_test_split",
              "StandardScaler", "sm"},
        LET s1 == Bind(Enter(K), "target_corr",
                       AboveThreshold(K["df_corr"], "target", RefitThreshold))
            s2 == Bind(s1, "X",
                       SelectColumns(K["df"], s1.K["target_corr"].index))
            s3 == Bind(s2, "X", fillna(s2.K["X"], FillValue))
            s4 == Bind(s3, "X", drop(s3.K["X"], {"target", "s4", "s6"}))
            r  == SplitScale(s4, MainSeed, <<"refit", "select", "clean">>)
        IN  IF ~Has(K["df_corr"].cols, "target")
            THEN Result(Enter(K), "KeyError", <<"refit">>, <<>>, 0)
            ELSE IF DropRaises(s3.K["X"], {"target", "s4", "s6"})
            THEN Result(s3, "KeyError", <<"refit", "select", "clean">>,
                        <<>>, 0)
            ELSE IF r.exc # ""
            THEN Result(r.s, r.exc, r.steps, <<>>, 0)
            ELSE FitOLS(r.s, r.steps))

\* sns.regplot(x="s3", y="target", data=df)
Regplot(K) ==
    Needs(K, {"sns", "df"},
        IF ~Has(K["df"].cols, "s3") \/ ~Has(K["df"].cols, "target")
        THEN Result(Enter(K), "KeyError", <<>>, <<>>, 0)
        ELSE Result(Enter(K), "", <<>>,
                    <<[kind |-> "regplot",
                       data |-> SelectColumns(K["df"], <<"s3", "target">>)]>>,
                    0))

(***************************************************************************)
(* The notebooks: their code cells in order, and what differs between them.*)
(***************************************************************************)
Notebooks == {"main", "life", "air"}

Cells(n) ==
    CASE n = "main" ->
           <<"load", "descr", "corr", "threshold", "pairplot", "sklearn",
             "setup", "fit", "metrics", "statsmodels", "ols", "summary",
             "refit", "summary", "regplot">>
      [] n = "life" ->
           <<"load", "info", "corrthreshold", "pairplot", "sklearn",
             "setup", "fit", "metrics", "comment", "statsmodels", "ols",
             "summary">>
      [] n = "air" ->
           <<"load", "info", "corr", "threshold", "pairplot", "sklearn",
             "setup", "fit", "metrics", "comment", "statsmodels", "ols",
             "summary">>

TargetOf(n) ==
    CASE n = "main" -> "target"
      [] n = "life" -> "life_expectancy"
      [] n = "air" -> "benzene"

CorrVar(n) == IF n = "main" THEN "target_corr" ELSE "y_corr"

ThresholdOf(n) ==
    CASE n = "main" -> MainThreshold
      [] n = "life" -> LifeThreshold
      [] n = "air" -> AirThreshold

SeedOf(n) ==
    CASE n = "main" -> MainSeed
      [] n = "life" -> LifeSeed
      [] n = "air" -> AirSeed

\* the import cell without r2_score
SklearnNames_no_r2(n) ==
    {"train_test_split", "StandardScaler", "LinearRegression"}
        \cup (IF n = "main" THEN {"mean_squared_error"} ELSE {})

SklearnNames(n) ==
    {"train_test_split", "StandardScaler", "LinearRegression", "r2_score"}
        \cup (IF n = "main" THEN {"mean_squared_error"} ELSE {})

(***************************************************************************)
(* The input tables: every column is drawn from a pool of six-row columns, *)
(* or, for the short tables, of four-row columns.                          *)
(* Rounded correlation of the feature columns with the two non-constant    *)
(* targets (complete / one cell missing):                                  *)
(*   <<3,NaN,2,1,1,0>>  -0.94 / -0.94     <<0,0,1,1,0,1>>  0.30 / 0.21     *)
(*   <<0,0,1,0,0,1>>     0.21 /  0.14     <<1,1,1,1,1,1>>  NaN  / NaN      *)
(*   <<0,1,2,1,1,2>>     0.51 /  0.50                                      *)
(***************************************************************************)
FeaturePool ==
    { Column(<<3, 3, 2, 1, 1, 0>>, {2}),
      Column(<<0, 0, 1, 1, 0, 1>>, {}),
      Column(<<0, 0, 1, 0, 0, 1>>, {}),
      Column(<<1, 1, 1, 1, 1, 1>>, {}) }

ExercisePool == FeaturePool \cup { Column(<<0, 1, 2, 1, 1, 2>>, {}) }

TargetPool ==
    { Column(<<0, 1, 1, 2, 3, 3>>, {}),
      Column(<<0, 1, 1, 2, 3, 3>>, {2}),
      Column(<<2, 2, 2, 2, 2, 2>>, {}) }

Status(s) == [na |-> FALSE, v |-> 0, s |-> s]
NoStatus == [na |-> TRUE, v |-> 0, s |-> ""]

StatusPool ==
    { <<Status("Developed"), Status("Developing"), Status("Developing"),
        Status("Developed"), Status("Developed"), Status("Developed")>>,
      <<Status("Developing"), NoStatus, Status("Developing"),
        Status("Developing"), Status("Developed"), Status("Developed")>> }

RowLabels == <<0, 1, 2, 3, 4, 5>>

\* Four-row tables, split into one test row and three training rows: row 0
\* is the test row under MainSeed, row 1 under LifeSeed and AirSeed.  The
\* first two columns of each pool are constant over the training rows, at
\* 0.1 (inexact mean) and at 0.3 (exact mean).
ShortMainPool ==
    { Column(<<3, 1, 1, 1>>, {}), Column(<<1, 3, 3, 3>>, {}),
      Column(<<0, 1, 2, 2>>, {}) }

ShortExercisePool ==
    { Column(<<1, 3, 1, 1>>, {}), Column(<<3, 1, 3, 3>>, {}),
      Column(<<0, 1, 2, 2>>, {}) }

ShortStatus ==
    <<Status("Developed"), Status("Developing"), Status("Developed"),
      Status("Developing")>>

ShortLabels == <<0, 1, 2, 3>>

\* the columns the model keeps of each dataset
Tables(n) ==
    CASE n = "main" ->
           { DataFrame(<<"s3", "s4", "s6", "target">>, RowLabels,
                       <<a, b, c, t>>) :
               a \in FeaturePool, b \in FeaturePool, c \in FeaturePool,
               t \in TargetPool }
           \cup
           { DataFrame(<<"s3", "s4", "s6", "target">>, ShortLabels,
                       <<a, b, c, Column(<<0, 1, 1, 2>>, {})>>) :
               a \in ShortMainPool, b \in ShortMainPool,
               c \in ShortMainPool }
      [] n = "life" ->
           { DataFrame(<<"status", "adult_mortality", "life_expectancy">>,
                       RowLabels, <<a, b, t>>) :
               a \in StatusPool, b \in ExercisePool, t \in TargetPool }
           \cup
           { DataFrame(<<"status", "adult_mortality", "life_expectancy">>,
                       ShortLabels,
                       <<ShortStatus, b, Column(<<1, 0, 1, 2>>, {})>>) :
               b \in ShortExercisePool }
      [] n = "air" ->
           { DataFrame(<<"co", "temp", "benzene">>, RowLabels, <<a, b, t>>) :
               a \in ExercisePool, b \in ExercisePool, t \in TargetPool }
           \cup
           { DataFrame(<<"co", "temp", "benzene">>, ShortLabels,
                       <<a, b, Column(<<1, 0, 1, 2>>, {})>>) :
               a \in ShortExercisePool, b \in ShortExercisePool }

\* a column without two different values correlates with nothing, itself
\* included; only then is the thresholded selection empty
Degenerate(column) ==
    \A i, j \in 1..Len(column) :
        (~column[i].na /\ ~column[j].na) => column[i].v = column[j].v

\* The bundled diabetes loader cannot miss its file; a CSV file can.  Whether
\* seaborn raises on a frame of no columns depends on its version; it matters
\* only where the selection is empty, so it is varied only there.
Envs(n) ==
    { [table |-> t, exists |-> e, pairplotRaises |-> p] :
        t \in Tables(n), e \in (IF n = "main" THEN {TRUE} ELSE BOOLEAN),
        p \in BOOLEAN } \ 
    { e \in [table : Tables(n), exists : BOOLEAN, pairplotRaises : {FALSE}] :
        ~Degenerate(e.table.data[Len(e.table.cols)]) }

(***************************************************************************)
(* The state machine: one kernel running one notebook's cells in order.    *)
(***************************************************************************)
NoError == [cell |-> 0, exc |-> ""]

NCells == Len(Cells(nb))

Running == err = NoError /\ pc <= NCells

Finished == ~Running

Init ==
    /\ nb \in Notebooks
    /\ world \in Envs(nb)
    /\ pc = 1
    /\ pass = 1
    /\ restarts = 0
    /\ kernel = EmptyNamespace
    /\ outputs = [c \in 1..Len(Cells(nb)) |-> <<>>]
    /\ err = NoError
    /\ trail = <<>>
    /\ readers = {}
    /\ writers = {}
    /\ base = <<>>
    /\ prev = <<>>

\* the cell at pc is of the given kind and the pass has not stopped
At(kind) == Running /\ Cells(nb)[pc] = kind

\* the kernel has run the cell at pc with result r; an exception stops the
\* pass at that cell
Apply(r) ==
    /\ kernel' = r.K
    /\ outputs' = [outputs EXCEPT ![pc] = r.out]
    /\ err' = IF r.exc = "" THEN NoError ELSE [cell |-> pc, exc |-> r.exc]
    /\ pc' = IF r.exc = "" THEN pc + 1 ELSE pc
    /\ trail' = trail \o r.steps
    /\ readers' = IF r.reads > 0 THEN readers \cup {pc} ELSE readers
    /\ writers' = IF r.writes > 0 THEN writers \cup {pc} ELSE writers
    /\ base' = IF pass = 1
               THEN Append(base, [binds |-> [n \in r.binds |-> r.K[n]],
                                  out |-> r.out, exc |-> r.exc])
               ELSE base
    /\ UNCHANGED <<nb, world, pass, restarts, prev>>

LoadCell ==
    /\ At("load")
    /\ \E r \in {CASE nb = "main" -> LoadDiabetes(kernel, world)
                   [] nb = "life" -> LoadLifeExpectancy(kernel, world)
                   [] nb = "air" -> LoadAirQuality(kernel, world)} : Apply(r)

DescrCell ==
    /\ At("descr")
    /\ \E r \in {PrintDescr(kernel)} : Apply(r)

InfoCell ==
    /\ At("info")
    /\ \E r \in {DfInfo(kernel)} : Apply(r)

CorrCell ==
    /\ At("corr")
    /\ \E r \in {Correlate(kernel)} : Apply(r)

ThresholdCell ==
    /\ At("threshold")
    /\ \E r \in {Threshold(kernel, CorrVar(nb), TargetOf(nb), ThresholdOf(nb))} :
           Apply(r)

CorrThresholdCell ==
    /\ At("corrthreshold")
    /\ \E r \in {CorrelateThreshold(kernel, CorrVar(nb), TargetOf(nb),
                                    ThresholdOf(nb))} : Apply(r)

PairplotCell ==
    /\ At("pairplot")
    /\ \E r \in {Pairplot(kernel, CorrVar(nb), world)} : Apply(r)

SklearnImportCell ==
    /\ At("sklearn")
    /\ \E r \in {ImportNames(kernel, SklearnNames(nb))} : Apply(r)

SetUpCell ==
    /\ At("setup")
    /\ \E r \in {SetUp(kernel, CorrVar(nb), TargetOf(nb), SeedOf(nb))} : Apply(r)

FitCell ==
    /\ At("fit")
    /\ \E r \in {Fit(kernel)} : Apply(r)

MetricsCell ==
    /\ At("metrics")
    /\ \E r \in {IF nb = "main" THEN MetricsMSE(kernel) ELSE Metrics(kernel)} : Apply(r)

CommentCell ==
    /\ At("comment")
    /\ \E r \in {Comment(kernel)} : Apply(r)

StatsmodelsImportCell ==
    /\ At("statsmodels")
    /\ \E r \in {ImportNames(kernel, {"sm"})} : Apply(r)

OLSFitCell ==
    /\ At("ols")
    /\ \E r \in {OLSCell(kernel)} : Apply(r)

SummaryCell ==
    /\ At("summary")
    /\ \E r \in {Summary(kernel)} : Apply(r)

RefitCell ==
    /\ At("refit")
    /\ \E r \in {Refit(kernel)} : Apply(r)

RegplotCell ==
    /\ At("regplot")
    /\ \E r \in {Regplot(kernel)} : Apply(r)

\* "Run All" once more in the same kernel, after the pass ended or stopped
RunAllAgain ==
    /\ Finished
    /\ pass < MaxPasses
    /\ pc' = 1
    /\ pass' = pass + 1
    /\ err' = NoError
    /\ trail' = <<>>
    /\ UNCHANGED <<nb, world, restarts, kernel, outputs, readers, writers, base, prev>>

\* "Restart Kernel and Clear All Outputs", then "Run All"
RestartKernel ==
    /\ Finished
    /\ restarts < MaxRestarts
    /\ restarts' = restarts + 1
    /\ pc' = 1
    /\ pass' = 1
    /\ kernel' = EmptyNamespace
    /\ outputs' = [c \in 1..NCells |-> <<>>]
    /\ err' = NoError
    /\ trail' = <<>>
    /\ readers' = {}
    /\ writers' = {}
    /\ prev' = base
    /\ base' = <<>>
    /\ UNCHANGED <<nb, world>>

Next ==
    \/ LoadCell
    \/ DescrCell
    \/ InfoCell
    \/ CorrCell
    \/ ThresholdCell
    \/ CorrThresholdCell
    \/ PairplotCell
    \/ SklearnImportCell
    \/ SetUpCell
    \/ FitCell
    \/ MetricsCell
    \/ CommentCell
    \/ StatsmodelsImportCell
    \/ OLSFitCell
    \/ SummaryCell
    \/ RefitCell
    \/ RegplotCell
    \/ RunAllAgain
    \/ RestartKernel

Spec == Init /\ [][Next]_vars

(***************************************************************************)
(* Properties.                                                             *)
(***************************************************************************)
Bound(name) == name \in DOMAIN kernel

\* position of the first occurrence of a step in this pass (0: not yet)
First(label) == IndexOf(trail, label)

\* b has not happened, or a happened before it
Before(a, b) == First(b) # 0 => (First(a) # 0 /\ First(a) < First(b))

\* the order of the steps that all three notebooks share
SharedOrder ==
    /\ Before("load", "clean")
    /\ Before("load", "correlate")
    /\ Before("correlate", "select")
    /\ Before("select", "split")
    /\ Before("clean", "split")
    /\ Before("split", "scale")
    /\ Before("scale", "fit")
    /\ Before("fit", "metrics")
    /\ Before("metrics", "ols")
    /\ Before("metrics", "refit")

\* C1 as stated: in every notebook the steps of a pass come in the order
\* load, clean, correlate, split, scale, fit, metrics, refit; in particular
\* the missing-value fill comes before the correlation matrix.
C1_FillBeforeCorrelationEverywhere ==
    SharedOrder /\ Before("clean", "correlate")

\* C1 amended: the steps of a pass come in the order load, correlate, split,
\* scale, fit, metrics, refit, and the fill comes after the load and before
\* the split; the fill comes before the correlation matrix in the two
\* exercise notebooks, and after it in the main tutorial.
C1_StepOrder ==
    /\ SharedOrder
    /\ nb \in {"life", "air"} => Before("clean", "correlate")
    /\ nb = "main" => Before("correlate", "clean")

\* the main tutorial has run through its refit, and filled after correlating
C1_Witness ==
    /\ nb = "main"
    /\ First("refit") # 0
    /\ First("correlate") # 0
    /\ First("correlate") < First("clean")

HasNaN(column) == \E i \in 1..Len(column) : column[i].na

FrameHasNaN(df) == \E j \in 1..Len(df.cols) : HasNaN(df.data[j])

\* the cell of the dataset on disk in the named column at row label i
OnDisk(name, label) ==
    world.table.data[IndexOf(world.table.cols, name)][label + 1]

\* the numeric columns that a frame has straight from the dataset
FromDisk(name) == Has(world.table.cols, name) /\ name # "status"

\* a column holds the dataset's cells with every missing one replaced by 0
ColumnIsFilled(name, index, column) ==
    \A i \in 1..Len(index) :
        column[i] = IF OnDisk(name, index[i]).na THEN Num(0)
                    ELSE OnDisk(name, index[i])

\* a column holds the dataset's cells as they are, missing ones included
ColumnIsRaw(name, index, column) ==
    \A i \in 1..Len(index) : column[i] = OnDisk(name, index[i])

FrameIsFilled(df) ==
    /\ ~FrameHasNaN(df)
    /\ \A j \in 1..Len(df.cols) :
           FromDisk(df.cols[j]) => ColumnIsFilled(df.cols[j], df.index, df.data[j])

\* C2 as stated: in every notebook nothing that enters the correlation
\* matrix, X or y is missing: every missing cell has become 0 and every
\* other cell is unchanged.
C2_NoMissingAnywhere ==
    /\ Bound("df_corr") => FrameIsFilled(kernel["df"])
    /\ Bound("X") => FrameIsFilled(kernel["X"])
    /\ Bound("y") =>
           /\ ~HasNaN(kernel["y"].val)
           /\ ColumnIsFilled(kernel["y"].name, kernel["y"].index,
                             kernel["y"].val)

\* C2 amended: in every notebook X has no missing cell: every missing cell
\* of its columns has become 0 and every other cell is unchanged.  In the two
\* exercise notebooks the same holds of the whole table df, hence of the
\* correlation matrix's input and of y.  In the main tutorial df and y keep
\* the dataset's cells as they are, missing ones included.
C2_MissingFilled ==
    /\ Bound("X") => FrameIsFilled(kernel["X"])
    /\ (nb \in {"life", "air"} /\ Bound("df")) => FrameIsFilled(kernel["df"])
    /\ (nb \in {"life", "air"} /\ Bound("y")) =>
           /\ ~HasNaN(kernel["y"].val)
           /\ ColumnIsFilled(kernel["y"].name, kernel["y"].index,
                             kernel["y"].val)
    /\ (nb = "main" /\ Bound("df")) =>
           \A j \in 1..Len(kernel["df"].cols) :
               ColumnIsRaw(kernel["df"].cols[j], kernel["df"].index,
                           kernel["df"].data[j])
    /\ (nb = "main" /\ Bound("y")) =>
           ColumnIsRaw(kernel["y"].name, kernel["y"].index, kernel["y"].val)

\* the main tutorial has built X from a column with a missing cell, which is
\* 0 in X, while y still has a missing cell
C2_Witness ==
    /\ nb = "main"
    /\ Bound("X")
    /\ Bound("y")
    /\ HasNaN(kernel["y"].val)
    /\ \E j \in 1..Len(kernel["X"].cols) :
           \E i \in 1..Len(kernel["X"].index) :
               /\ OnDisk(kernel["X"].cols[j], kernel["X"].index[i]).na
               /\ kernel["X"].data[j][i] = Num(0)

\* the number of cells the current pass has run
Executed == IF err = NoError THEN pc - 1 ELSE pc

\* the current pass has just run the cell of the given kind to its end
After(kind) ==
    /\ err = NoError
    /\ pc > 1
    /\ pc - 1 <= NCells
    /\ Cells(nb)[pc - 1] = kind

RECURSIVE Pass1Namespace(_)
Pass1Namespace(k) ==
    IF k = 0 THEN EmptyNamespace ELSE base[k].binds @@ Pass1Namespace(k - 1)

\* C4: a further pass in the same kernel repeats pass 1: after each cell,
\* every variable that pass 1 had bound by then has the value it had then,
\* the cell's output is the same, the pass stops where pass 1 stopped, and
\* it ends with the namespace pass 1 ended with.
C4_SecondPassIdempotent ==
    pass >= 2 =>
        /\ Executed <= Len(base)
        /\ \A c \in 1..Executed :
               /\ outputs[c] = base[c].out
               /\ base[c].exc = IF c = err.cell THEN err.exc ELSE ""
        /\ \A p \in {Pass1Namespace(Executed)} :
               /\ \A n \in DOMAIN p : Bound(n) /\ kernel[n] = p[n]
               /\ Finished => (Executed = Len(base) /\ DOMAIN kernel = DOMAIN p)

\* the main tutorial has run to its end a second time in the same kernel,
\* after the refit cell of pass 1 overwrote target_corr, X and the rest
C4_Witness ==
    /\ nb = "main"
    /\ pass = 2
    /\ pc > NCells
    /\ Len(base) = NCells
    /\ base[IndexOf(Cells(nb), "refit")].binds["X"].cols
           # base[IndexOf(Cells(nb), "setup")].binds["X"].cols

\* C5 as stated: the first predictor subset of the main tutorial holds
\* every feature whose (rounded, absolute) correlation with the target is at
\* least 0.3, and no other.
C5_AtLeastModerate ==
    (nb = "main" /\ After("setup")) =>
        \A j \in 1..Len(kernel["df"].cols) :
            LET f == kernel["df"].cols[j]
                r == GetColumn(kernel["df_corr"], "target").val[j]
            IN  f # "target" =>
                    (Has(kernel["X"].cols, f) <=> (~r.na /\ Abs(r.v) >= 30))

SetUpIdx == IndexOf(Cells(nb), "setup")

\* 0 in the exercise notebooks, which have no refit cell
RefitIdx == IndexOf(Cells(nb), "refit")

\* where a pass may be, given what fails: past the first cell only if the
\* file was there, past the set-up cell only if the selection has the
\* target, past the refit cell only if the selection has target, s4 and s6;
\* and a stopped pass stands at the failing cell with no later cell run
StoppedWhereItFailed ==
    /\ ~world.exists => (pc = 1 /\ ~Bound("df"))
    /\ pc > SetUpIdx => Has(kernel[CorrVar(nb)].index, TargetOf(nb))
    /\ (nb = "main" /\ pc > RefitIdx) =>
           \A c \in {"target", "s4", "s6"} :
               Has(kernel["target_corr"].index, c)
    /\ err # NoError =>
           /\ pc = err.cell
           /\ pass = 1 =>
                  /\ Len(base) = pc
                  /\ \A c \in (pc + 1)..NCells : outputs[c] = <<>>

\* C6: a failure (file missing, or the target, s4 or s6 absent from the
\* selection a cell drops it from) stops the pass at the failing cell: no
\* later cell has run, and nothing runs until a new run is started.
C6_FailureStops ==
    /\ []StoppedWhereItFailed
    /\ [][err # NoError =>
            \/ restarts' = restarts + 1
            \/ (pass' = pass + 1 /\ pc' = 1 /\ kernel' = kernel
                    /\ outputs' = outputs)]_vars

\* the refit cell of the main tutorial has stopped on a KeyError
C6_Witness ==
    /\ nb = "main"
    /\ pass = 1
    /\ err = [cell |-> RefitIdx, exc |-> "KeyError"]
    /\ outputs[RefitIdx + 1] = <<>>

\* C7: no cell reads a name that is unbound, and in a fresh kernel the
\* namespace holds exactly what the cells of this notebook have bound so far.
C7_NoUnboundRead ==
    /\ err.exc # "NameError"
    /\ pass = 1 => kernel = Pass1Namespace(Len(base))

\* a fresh kernel has run the refit cell of the main tutorial, which reads
\* df_corr, df and y
C7_Witness ==
    /\ nb = "main"
    /\ pass = 1
    /\ After("refit")
    /\ Bound("df_corr") /\ Bound("df") /\ Bound("y")

Stays(name) ==
    /\ name \in DOMAIN kernel'
    /\ kernel'[name] = kernel[name]

\* C8: only the first cell reads from disk, no cell writes to disk, and
\* within a kernel no cell but the first changes df and no cell but the one
\* that computes it changes df_corr.
C8_TableLeftAlone ==
    /\ [](readers \subseteq {1} /\ writers = {})
    /\ [][restarts' = restarts =>
            /\ (Bound("df") /\ ~At("load")) => Stays("df")
            /\ (Bound("df_corr") /\ ~At("corr") /\ ~At("corrthreshold"))
                   => Stays("df_corr")]_vars

\* the main tutorial has refit on a filled copy while df keeps its missing cell
C8_Witness ==
    /\ nb = "main"
    /\ After("refit")
    /\ readers = {1}
    /\ FrameHasNaN(kernel["df"])
    /\ \E j \in 1..Len(kernel["X"].cols) :
           HasNaN(GetColumn(kernel["df"], kernel["X"].cols[j]).val)

\* the standardized values of predictor name over the training rows
Standardized(X, rows, name) ==
    LET train == TakeFrame(SelectColumns(X, <<name>>), rows)
    IN  ScalerTransform(ScalerFit(train), train).data[1]

\* the summary cell is next, or has just run
SummaryCellReached ==
    \/ After("summary")
    \/ /\ pc <= NCells
       /\ Cells(nb)[pc] = "summary"
       /\ err \in {NoError, [cell |-> pc, exc |-> "ValueError"]}

\* C9: for every summary cell the list ["const"] + list(X.columns) has as
\* many names as the fitted design matrix has columns, "const" names the
\* column of ones, and every other name is the predictor whose standardized
\* training values its column holds.
C9_SummaryNames ==
    SummaryCellReached =>
        \A xname \in {<<"const">> \o kernel["X"].cols} :
            \A exog \in {kernel["results"].model.exog.data} :
                /\ Len(xname) = Len(exog)
                /\ \A i \in 1..Len(exog[1]) : exog[1][i] = One
                /\ \A j \in 2..Len(xname) :
                       exog[j] = Standardized(kernel["X"],
                                              kernel["y_train"].index,
                                              xname[j])

\* the first OLS model of a pass is the current one
FirstOLS ==
    \/ After("ols")
    \/ After("summary") /\ (RefitIdx = 0 \/ pc - 1 < RefitIdx)

\* C10: the first OLS model is fitted on the target values and the
\* standardized columns that lr was fitted on (the training rows), with one
\* column of ones put in front and nothing else changed.
C10_SameFitData ==
    FirstOLS =>
        /\ kernel["results"].model = kernel["model"]
        /\ kernel["model"].endog = kernel["lr"].y
        /\ kernel["lr"].y = kernel["y_train"].val
        /\ kernel["lr"].X = kernel["X_train"]
        /\ kernel["model"].exog.data =
               <<[i \in 1..Len(kernel["lr"].y) |-> One]>>
                   \o kernel["lr"].X.data

\* the labels of a sequence of names, as a set
Labels(names) == {names[i] : i \in 1..Len(names)}

\* the columns of df whose rounded correlation with the target, as df_corr
\* holds it, exceeds threshold in absolute value
Exceeding(threshold) ==
    LET dc == kernel["df_corr"]
        tc == dc.data[IndexOf(dc.cols, TargetOf(nb))]
    IN  {dc.index[i] : i \in {k \in 1..Len(tc) :
                                  ~tc[k].na /\ Abs(tc[k].v) > threshold}}

Dropped == {"target", "s4", "s6"}

\* C11: after the refit cell of the main tutorial X holds exactly the
\* columns whose rounded |r| with the target exceeds 0.2, minus target, s4
\* and s6, each once; and every predictor of the first model other than s4
\* and s6 is among them.
C11_RefitPredictors ==
    (nb = "main" /\ After("refit")) =>
        \A cols \in {kernel["X"].cols} :
            /\ Labels(cols) = Exceeding(RefitThreshold) \ Dropped
            /\ Labels(cols) \cap Dropped = {}
            /\ Cardinality(Labels(cols)) = Len(cols)
            /\ Len(kernel["X_train"].data) = Len(cols)
            /\ (Exceeding(MainThreshold) \ Dropped) \subseteq Labels(cols)
            /\ Len(base) >= SetUpIdx =>
                   (Labels(base[SetUpIdx].binds["X"].cols) \ Dropped)
                       \subseteq Labels(cols)

\* the first model had s3, s4 and s6, and the refit has run
C11_Witness ==
    /\ nb = "main"
    /\ After("refit")
    /\ Len(base) >= SetUpIdx
    /\ Labels(base[SetUpIdx].binds["X"].cols) = {"s3", "s4", "s6"}
    /\ kernel["X"].cols = <<"s3">>

\* the thresholded selection the set-up (or refit) cell has read
Selection == Labels(kernel[CorrVar(nb)].index)

\* the columns of the array are the standardized columns of X, in order,
\* over the given rows
ColumnsOfX(array, rows) ==
    /\ Len(array.data) = Len(kernel["X"].cols)
    /\ \A j \in 1..Len(array.data) :
           array.data[j] =
               ScalerTransform(
                   ScalerFit(TakeFrame(SelectColumns(kernel["X"],
                                 <<kernel["X"].cols[j]>>),
                                 kernel["y_train"].index)),
                   TakeFrame(SelectColumns(kernel["X"],
                                 <<kernel["X"].cols[j]>>), rows)).data[1]

TargetNotAPredictor ==
    /\ TargetOf(nb) \notin Labels(kernel["X"].cols)
    /\ ColumnsOfX(kernel["X_train"], kernel["y_train"].index)
    /\ ColumnsOfX(kernel["X_test"], kernel["y_test"].index)

\* C12 as stated: whenever the set-up cell or the refit cell has completed,
\* the columns of X are exactly the thresholded selection minus the target
\* column, and the target is in none of X, X_train, X_test.
C12_SelectionMinusTarget ==
    (After("setup") \/ After("refit")) =>
        /\ Labels(kernel["X"].cols) = Selection \ {TargetOf(nb)}
        /\ TargetNotAPredictor

\* C12: whenever the set-up cell has completed the columns of X are exactly
\* the thresholded selection minus the target column; whenever the refit
\* cell has completed they are the selection minus target, s4 and s6; in
\* both cases the target is not a column of X, and X_train and X_test hold
\* the standardized columns of X and nothing else.
C12_TargetNeverPredictor ==
    /\ After("setup") =>
           /\ Labels(kernel["X"].cols) = Selection \ {TargetOf(nb)}
           /\ TargetOf(nb) \in Selection
           /\ TargetNotAPredictor
    /\ After("refit") =>
           /\ Labels(kernel["X"].cols) = Selection \ Dropped
           /\ Dropped \subseteq Selection
           /\ TargetNotAPredictor

\* the air-quality set-up cell has completed with a predictor in X
C12_Witness ==
    /\ nb = "air"
    /\ After("setup")
    /\ "benzene" \in Selection
    /\ Len(kernel["X"].cols) >= 1

====
